---- MODULE Spec2Model ----
(***************************************************************************)
(* A model of tuned_lens/scripts/train_loop.py (TrainingLoop.execute) and  *)
(* of tuned_lens/nn/lenses.py.  One worker's execution of execute() is a   *)
(* sequential process; pc is its position in the source.  The lens classes *)
(* are modelled as objects on a heap, with calls of their methods as       *)
(* actions.                                                                *)
(***************************************************************************)
EXTENDS Integers, Sequences, FiniteSets, Bags, TLC

\* ------------------------------------------------------------------ bounds
MaxSteps == 2
MaxData == 4
MaxMixed == 2
MaxTokens == 4
MaxBatch == 2
MaxWorld == 2
NumLayers == 2
MaxDModel == 2
MaxLenses == 2
MaxUpdates == 1
MaxLoads == 1
MaxLoss == 2

\* ------------------------------------------------------- program constants
\* min(1000, self.num_steps // 5)
WarmupCap == 1000
\* self.num_steps // 5
WarmupDivisor == 5
\* clip_grad_norm_(lens.parameters(), 1.0)
ClipMaxNorm == 1

VARIABLES
    self,           \* the TrainingLoop dataclass fields execute() reads
    data,           \* the dataset: the token length of each sample
    world_size,     \* dist.get_world_size(), 1 when not initialized
    local_rank,     \* dist.get_rank(), 0 when not initialized
    pc,             \* position of execute()
    err,            \* the exception that ended the run, "none" otherwise
    dl,             \* the DataLoader's sample order (data.shuffle(seed))
    opt_class,      \* "none" | "SGD" | "Adam"
    sched,          \* the LambdaLR scheduler, <<>> before it is built
    tokens_per_sample,
    grad_acc_steps,
    adjusted_count, \* the reported adjusted token count, <<>> when none is reported
    total_batches,
    batch_idx,
    layer,          \* index i of the residual-stream loop
    grads,          \* the lens parameters' .grad buffers: the backward passes
                    \* accumulated in them, and the norm they were last clipped
                    \* to (None once they changed again)
    opt_log,        \* one record per opt.step() call: what the step was built from
    stepOps,        \* operations of lines 285-288 done in the current optimizer step
    metrics,        \* number of entries of metrics["loss/<name>"], by layer
    lens,           \* the lens: where its translator weights come from
    counts          \* how often the run did each compute-heavy or side-effecting call

\* the objects of nn/lenses.py
VARIABLES
    configs,        \* the TunedLensConfig objects, by identity (position)
    lenses,         \* the Lens objects, by identity (position)
    files,          \* the lens directory on disk: <<>> when none was written
    warnings,       \* the messages the last call passed to logging.warning
    ret,            \* the outcome of the last call: its value or its exception
    config_dict,    \* the dictionary a caller hands to from_dict
    num_updates     \* training updates applied to translator parameters so far

loopVars == <<self, data, world_size, local_rank, pc, err, dl, opt_class, sched,
              tokens_per_sample, grad_acc_steps, adjusted_count, total_batches,
              batch_idx, layer, grads, opt_log, stepOps, metrics, lens, counts>>

lensVars == <<configs, lenses, files, warnings, ret, config_dict, num_updates>>

\* the tensors of one pass through the loop over the layers (lines 249-281)
VARIABLES
    tensors,        \* the storages of the scalar tensors made so far: their values
    loss,           \* the storage the name loss refers to, 0 when unbound
    logging_loss,   \* the storage the name logging_loss refers to, 0 when unbound
    loss_metrics,   \* the lists metrics["loss/<name>"]: storages, by layer
    objective       \* what the loss function returned for each entry of those lists

lossVars == <<tensors, loss, logging_loss, loss_metrics, objective>>

\* a run of several workers, each executing execute() on its own shard
VARIABLES
    nbatches,       \* by rank: the batches the worker's loop gets from its DataLoader
    workers         \* by rank: the worker's position and what it has done so far

distVars == <<nbatches, workers>>

vars == <<loopVars, lensVars, lossVars, distVars>>

\* ----------------------------------------------------------------- helpers
Max(a, b) == IF a >= b THEN a ELSE b
Min(a, b) == IF a <= b THEN a ELSE b

\* Python's divmod on non-negative operands
DivMod(a, b) == <<a \div b, a % b>>

\* Optional[T]: <<>> is None, <<v>> is the value v
None == <<>>
Some(v) == <<v>>
IsNone(o) == o = <<>>
The(o) == o[1]

\* class OptimizerOption(enum.Enum): a member never compares equal to a str
ADAM == [enum |-> TRUE, value |-> "adam"]
SGD == [enum |-> TRUE, value |-> "sgd"]
Str(s) == [enum |-> FALSE, value |-> s]

\* self.optimizer == "sgd": Enum.__eq__ is identity, so the comparison with a
\* str is False for every member of OptimizerOption
OptimizerEq(o, s) == (~o.enum) /\ o.value = s

\* --------------------------------------------------------- pure functions
\* transformers.get_linear_schedule_with_warmup's lr_lambda(current_step), as
\* the fraction <<numerator, denominator>> (denominator > 0)
LrLambda(num_warmup_steps, num_training_steps, current_step) ==
    IF current_step < num_warmup_steps
    THEN <<current_step, Max(1, num_warmup_steps)>>
    ELSE <<Max(0, num_training_steps - current_step),
           Max(1, num_training_steps - num_warmup_steps)>>

\* scheduler = get_linear_schedule_with_warmup(opt, warmup, num_steps - warmup):
\* the scheduler's arguments, last_epoch = 0 after construction
NewScheduler(warmup, num_steps) ==
    [num_warmup_steps |-> warmup,
     num_training_steps |-> num_steps - warmup,
     last_epoch |-> 0]

\* the multiplier the scheduler currently applies to the base learning rate
LrMult(s) == LrLambda(s.num_warmup_steps, s.num_training_steps, s.last_epoch)

\* the default of warmup_steps when it is None
DefaultWarmup(optimizer, num_steps) ==
    IF OptimizerEq(optimizer, "adam")
    THEN Min(WarmupCap, num_steps \div WarmupDivisor)
    ELSE 0

\* (mutant: the remainder is not looked at)
TokensDivisibleNoCheck(tokens_per_step, tps) == TRUE
\* the check of lines 189-190 passes: the remainder of
\* divmod(tokens_per_step, tokens_per_sample) is 0
TokensDivisible(tokens_per_step, tps) == DivMod(tokens_per_step, tps)[2] = 0

\* (mutant: floor division, the remainder dropped)
GradAccStepsFloor(samples_per_step, global_batch_size) ==
    DivMod(samples_per_step, global_batch_size)[1]
\* grad_acc_steps of lines 197-201: divmod, plus one when there is a remainder
GradAccSteps(samples_per_step, global_batch_size) ==
    LET dm == DivMod(samples_per_step, global_batch_size)
    IN  IF dm[2] # 0 THEN dm[1] + 1 ELSE dm[1]

\* data.shuffle(seed=self.seed): some fixed permutation of the samples
Shuffles(d) ==
    IF d = <<>> THEN {<<>>}
    ELSE LET vals == {d[i] : i \in 1..Len(d)}
         IN  {s \in [1..Len(d) -> vals] :
                \A v \in vals :
                    Cardinality({i \in 1..Len(d) : s[i] = v})
                  = Cardinality({i \in 1..Len(d) : d[i] = v})}

\* The DataLoader's k-th batch (k = 1, 2, ...): the next batch_size samples,
\* the last batch short (drop_last is False)
NumBatches(order, batch_size) == (Len(order) + batch_size - 1) \div batch_size
Batch(order, batch_size, k) ==
    [j \in 1..(Min(k * batch_size, Len(order)) - (k - 1) * batch_size)
        |-> order[(k - 1) * batch_size + j]]

\* default_collate stacks the samples of a batch: they must be equally long
Collates(b) == \A i, j \in 1..Len(b) : b[i] = b[j]

\* Path.is_dir() of the resume path
IsDir(path) == path = "save_dir"

\* th.load(path): open(path, "rb") fails on a directory; a file written by
\* TunedLens.save holds layer_translators.state_dict(), keyed "<i>.weight"
ThLoad(path) ==
    IF IsDir(path)
    THEN [ok |-> FALSE, error |-> "IsADirectoryError", keys |-> "none"]
    ELSE [ok |-> TRUE, error |-> "none", keys |-> "layer_index"]

\* lens.load_state_dict(state), strict: the lens's own keys are
\* "layer_translators.<i>.weight" and the unembed's parameters
LoadStateDictOk(keys) == keys = "lens_module"

\* (mutant: the optimizer steps before the gradients are clipped)
StepOrderStepBeforeClip == <<"opt_step", "clip", "zero_grad", "sched_step">>
\* lines 285-288, in program order
StepOrder == <<"clip", "opt_step", "zero_grad", "sched_step">>

\* the position after the k-th statement of lines 285-288
AfterStepOp(k) == IF k < Len(StepOrder) THEN StepOrder[k + 1] ELSE "log"

\* the place of a statement of lines 285-288 in the program order
PosOf(op) == CHOOSE k \in 1..Len(StepOrder) : StepOrder[k] = op

\* ------------------------------------------------------------ input sets
SeqsUpTo(S, n) == UNION {[1..k -> S] : k \in 0..n}

\* the datasets: the token length of each sample.  chunk_and_tokenize makes
\* the samples equally long; a dataset built otherwise may mix lengths
Datasets(LenS) ==
    {[i \in 1..n |-> l] : n \in 0..MaxData, l \in LenS}
        \cup SeqsUpTo(LenS, MaxMixed)

OptimizerValues == {SGD, ADAM, Str("sgd"), Str("adam"), Str("rmsprop")}
LossValues == {"ce", "kl", "mse"}
ResumeValues == {None, Some("save_dir"), Some("params_file")}
WarmupValues == {None} \cup {Some(w) : w \in 0..(MaxSteps - 1)}

\* the fields of TrainingLoop (and of the CliArgs it extends) that execute() reads
Configs(TokS, BatchS, OptS, LossS, ResumeS, WarmS, WandbS) ==
    [optimizer : OptS,
     warmup_steps : WarmS,
     num_steps : 1..MaxSteps,
     resume : ResumeS,
     loss : LossS,
     tokens_per_step : TokS,
     per_gpu_batch_size : BatchS,
     wandb : WandbS]

\* no object of nn/lenses.py has been made and no call is under way
NoLensObjects ==
    /\ configs = <<>>
    /\ lenses = <<>>
    /\ files = None
    /\ warnings = <<>>
    /\ ret = None
    /\ config_dict = None
    /\ num_updates = 0

\* the tensors of the layer loop are not looked at
NoTensors ==
    /\ tensors = <<>>
    /\ loss = 0
    /\ logging_loss = 0
    /\ loss_metrics = <<>>
    /\ objective = <<>>

\* the other workers are not looked at
NoWorkers ==
    /\ nbatches = <<>>
    /\ workers = <<>>

NoTensorsNoWorkers == NoTensors /\ NoWorkers

\* the state when execute() is entered
InitWith(cfgs, LenS, WorldS) ==
    /\ self \in cfgs
    /\ data \in Datasets(LenS)
    /\ world_size \in WorldS
    /\ local_rank \in 0..(world_size - 1)
    /\ pc = "start"
    /\ err = "none"
    /\ dl = <<>>
    /\ opt_class = "none"
    /\ sched = None
    /\ tokens_per_sample = 0
    /\ grad_acc_steps = 0
    /\ adjusted_count = None
    /\ total_batches = 0
    /\ batch_idx = 0
    /\ layer = 0
    /\ grads = [acc |-> 0, clipped |-> None]
    /\ opt_log = <<>>
    /\ stepOps = <<>>
    /\ metrics = [i \in 0..(NumLayers - 1) |-> 0]
    /\ lens = [weights |-> "initial", updates |-> 0]
    /\ counts = [model_fwd |-> 0, lens_fwd |-> 0, backward |-> 0,
                 normalize |-> 0, logs |-> 0, saves |-> 0]
    /\ NoLensObjects
    /\ NoTensorsNoWorkers

Init ==
    InitWith(Configs(1..MaxTokens, 1..MaxBatch, OptimizerValues, LossValues,
                     ResumeValues, WarmupValues, BOOLEAN),
             {1, 2}, 1..MaxWorld)

\* --------------------------------------------------------------- actions
Raise(e) ==
    /\ pc' = "error"
    /\ err' = e

\* lines 106-138: wrap the lens, build the DataLoader over the shuffled data
Setup ==
    /\ UNCHANGED <<lensVars, lossVars, distVars>>
    /\ pc = "start"
    /\ dl' \in Shuffles(data)
    /\ pc' = "build_opt"
    /\ UNCHANGED <<self, data, world_size, local_rank, err, opt_class, sched,
                   tokens_per_sample, grad_acc_steps, adjusted_count,
                   total_batches, batch_idx, layer, grads, opt_log, stepOps,
                   metrics, lens, counts>>

\* lines 140-168: choose and build the optimizer
BuildOptimizer ==
    /\ UNCHANGED <<lensVars, lossVars, distVars>>
    /\ pc = "build_opt"
    /\ IF OptimizerEq(self.optimizer, "sgd")
       THEN opt_class' = "SGD" /\ pc' = "scheduler" /\ err' = err
       ELSE IF OptimizerEq(self.optimizer, "adam")
       THEN opt_class' = "Adam" /\ pc' = "scheduler" /\ err' = err
       ELSE opt_class' = opt_class /\ Raise("ValueError: Unknown optimizer")
    /\ UNCHANGED <<self, data, world_size, local_rank, dl, sched,
                   tokens_per_sample, grad_acc_steps, adjusted_count,
                   total_batches, batch_idx, layer, grads, opt_log, stepOps,
                   metrics, lens, counts>>

\* lines 170-180: default the warmup, build the scheduler
BuildScheduler ==
    /\ UNCHANGED <<lensVars, lossVars, distVars>>
    /\ pc = "scheduler"
    /\ LET w == IF IsNone(self.warmup_steps)
                THEN DefaultWarmup(self.optimizer, self.num_steps)
                ELSE The(self.warmup_steps)
       IN  /\ self' = [self EXCEPT !.warmup_steps = Some(w)]
           /\ sched' = Some(NewScheduler(w, self.num_steps))
    /\ pc' = "resume"
    /\ UNCHANGED <<data, world_size, local_rank, err, dl, opt_class,
                   tokens_per_sample, grad_acc_steps, adjusted_count,
                   total_batches, batch_idx, layer, grads, opt_log, stepOps,
                   metrics, lens, counts>>

\* lines 181-185: restore the lens from self.resume
Resume ==
    /\ UNCHANGED <<lensVars, lossVars, distVars>>
    /\ pc = "resume"
    /\ IF IsNone(self.resume)
       THEN pc' = "batch_math" /\ err' = err /\ lens' = lens
       ELSE IF ~IsDir(The(self.resume))
       THEN Raise("AssertionError") /\ lens' = lens
       ELSE LET state == ThLoad(The(self.resume))
            IN  IF ~state.ok
                THEN Raise(state.error) /\ lens' = lens
                ELSE IF ~LoadStateDictOk(state.keys)
                THEN Raise("RuntimeError: state_dict keys") /\ lens' = lens
                ELSE /\ lens' = [lens EXCEPT !.weights = "checkpoint"]
                     /\ pc' = "batch_math"
                     /\ err' = err
    /\ UNCHANGED <<self, data, world_size, local_rank, dl, opt_class, sched,
                   tokens_per_sample, grad_acc_steps, adjusted_count,
                   total_batches, batch_idx, layer, grads, opt_log, stepOps,
                   metrics, counts>>

\* lines 187-216: tokens per sample, gradient accumulation steps, total batches
BatchMath ==
    /\ UNCHANGED <<lensVars, lossVars, distVars>>
    /\ pc = "batch_math"
    /\ IF data = <<>>
       THEN /\ Raise("IndexError")
            /\ UNCHANGED <<tokens_per_sample, grad_acc_steps, adjusted_count,
                           total_batches>>
       ELSE IF data[1] = 0
       THEN /\ Raise("ZeroDivisionError")
            /\ tokens_per_sample' = data[1]
            /\ UNCHANGED <<grad_acc_steps, adjusted_count, total_batches>>
       ELSE IF ~TokensDivisible(self.tokens_per_step, data[1])
       THEN /\ Raise("ValueError: tokens per step not divisible")
            /\ tokens_per_sample' = data[1]
            /\ UNCHANGED <<grad_acc_steps, adjusted_count, total_batches>>
       ELSE LET samples_per_step == DivMod(self.tokens_per_step, data[1])[1]
                global_batch_size == self.per_gpu_batch_size * world_size
                rem == DivMod(samples_per_step, global_batch_size)[2]
                gas == GradAccSteps(samples_per_step, global_batch_size)
            IN  /\ tokens_per_sample' = data[1]
                /\ grad_acc_steps' = gas
                /\ adjusted_count' =
                       IF rem # 0
                       THEN Some(gas * global_batch_size * data[1])
                       ELSE None
                /\ total_batches' = self.num_steps * gas
                /\ pc' = "next_batch"
                /\ err' = err
    /\ UNCHANGED <<self, data, world_size, local_rank, dl, opt_class, sched,
                   batch_idx, layer, grads, opt_log, stepOps, metrics, lens,
                   counts>>

\* lines 218-219: the next batch of islice(dl, total_batches), or the end of the loop
NextBatch ==
    /\ UNCHANGED <<lensVars, lossVars, distVars>>
    /\ pc = "next_batch"
    /\ IF batch_idx < total_batches
          /\ batch_idx < NumBatches(dl, self.per_gpu_batch_size)
       THEN IF Collates(Batch(dl, self.per_gpu_batch_size, batch_idx + 1))
            THEN /\ batch_idx' = batch_idx + 1
                 /\ pc' = "forward"
                 /\ err' = err
            ELSE /\ Raise("RuntimeError: collate")
                 /\ batch_idx' = batch_idx
       ELSE /\ pc' = "save"
            /\ err' = err
            /\ batch_idx' = batch_idx
    /\ UNCHANGED <<self, data, world_size, local_rank, dl, opt_class, sched,
                   tokens_per_sample, grad_acc_steps, adjusted_count,
                   total_batches, layer, grads, opt_log, stepOps, metrics,
                   lens, counts>>

\* lines 220-228: the frozen model's forward pass over the batch
ModelForward ==
    /\ UNCHANGED <<lensVars, lossVars, distVars>>
    /\ pc = "forward"
    /\ counts' = [counts EXCEPT !.model_fwd = @ + 1]
    /\ pc' = "labels"
    /\ UNCHANGED <<self, data, world_size, local_rank, err, dl, opt_class,
                   sched, tokens_per_sample, grad_acc_steps, adjusted_count,
                   total_batches, batch_idx, layer, grads, opt_log, stepOps,
                   metrics, lens>>

\* lines 230-246: the labels of the objective
SelectLabels ==
    /\ UNCHANGED <<lensVars, lossVars, distVars>>
    /\ pc = "labels"
    /\ IF self.loss \in {"ce", "kl"}
       THEN pc' = "layer" /\ err' = err
       ELSE Raise("NotImplementedError: Unknown loss")
    /\ layer' = 0
    /\ UNCHANGED <<self, data, world_size, local_rank, dl, opt_class, sched,
                   tokens_per_sample, grad_acc_steps, adjusted_count,
                   total_batches, batch_idx, grads, opt_log, stepOps, metrics,
                   lens, counts>>

\* lines 249-281: one layer of the residual stream: lens forward, loss,
\* logging loss, scaled backward
LayerStep ==
    /\ UNCHANGED <<lensVars, lossVars, distVars>>
    /\ pc = "layer"
    /\ counts' = [counts EXCEPT !.lens_fwd = @ + 1, !.backward = @ + 1]
    /\ metrics' = IF local_rank = 0
                  THEN [metrics EXCEPT ![layer] = @ + 1]
                  ELSE metrics
    /\ grads' = [acc |-> grads.acc + 1, clipped |-> None]
    /\ IF layer + 1 < NumLayers
       THEN layer' = layer + 1 /\ pc' = "layer"
       ELSE layer' = layer /\ pc' = "step_check"
    /\ UNCHANGED <<self, data, world_size, local_rank, err, dl, opt_class,
                   sched, tokens_per_sample, grad_acc_steps, adjusted_count,
                   total_batches, batch_idx, opt_log, stepOps, lens>>

\* lines 283-284: does this micro-batch complete an optimizer step?
StepCheck ==
    /\ UNCHANGED <<lensVars, lossVars, distVars>>
    /\ pc = "step_check"
    /\ IF DivMod(batch_idx, grad_acc_steps)[2] = 0
       THEN pc' = StepOrder[1] /\ stepOps' = <<>>
       ELSE pc' = "normalize" /\ stepOps' = stepOps
    /\ UNCHANGED <<self, data, world_size, local_rank, err, dl, opt_class,
                   sched, tokens_per_sample, grad_acc_steps, adjusted_count,
                   total_batches, batch_idx, layer, grads, opt_log, metrics,
                   lens, counts>>

\* line 285: th.nn.utils.clip_grad_norm_(lens.parameters(), 1.0)
Clip ==
    /\ UNCHANGED <<lensVars, lossVars, distVars>>
    /\ pc = "clip"
    /\ grads' = [grads EXCEPT !.clipped = Some(ClipMaxNorm)]
    /\ stepOps' = Append(stepOps, "clip")
    /\ pc' = AfterStepOp(PosOf("clip"))
    /\ UNCHANGED <<self, data, world_size, local_rank, err, dl, opt_class,
                   sched, tokens_per_sample, grad_acc_steps, adjusted_count,
                   total_batches, batch_idx, layer, opt_log, metrics, lens,
                   counts>>

\* line 286: opt.step()
OptStep ==
    /\ UNCHANGED <<lensVars, lossVars, distVars>>
    /\ pc = "opt_step"
    /\ opt_log' = Append(opt_log, [acc |-> grads.acc,
                                   clipped |-> grads.clipped,
                                   lr |-> LrMult(The(sched)),
                                   epoch |-> The(sched).last_epoch])
    /\ lens' = [lens EXCEPT !.updates = @ + 1]
    /\ stepOps' = Append(stepOps, "opt_step")
    /\ pc' = AfterStepOp(PosOf("opt_step"))
    /\ UNCHANGED <<self, data, world_size, local_rank, err, dl, opt_class,
                   sched, tokens_per_sample, grad_acc_steps, adjusted_count,
                   total_batches, batch_idx, layer, grads, metrics, counts>>

\* line 287: opt.zero_grad(set_to_none=False)
ZeroGrad ==
    /\ UNCHANGED <<lensVars, lossVars, distVars>>
    /\ pc = "zero_grad"
    /\ grads' = [acc |-> 0, clipped |-> None]
    /\ stepOps' = Append(stepOps, "zero_grad")
    /\ pc' = AfterStepOp(PosOf("zero_grad"))
    /\ UNCHANGED <<self, data, world_size, local_rank, err, dl, opt_class,
                   sched, tokens_per_sample, grad_acc_steps, adjusted_count,
                   total_batches, batch_idx, layer, opt_log, metrics, lens,
                   counts>>

\* line 288: scheduler.step()
SchedStep ==
    /\ UNCHANGED <<lensVars, lossVars, distVars>>
    /\ pc = "sched_step"
    /\ sched' = Some([The(sched) EXCEPT !.last_epoch = @ + 1])
    /\ stepOps' = Append(stepOps, "sched_step")
    /\ pc' = AfterStepOp(PosOf("sched_step"))
    /\ UNCHANGED <<self, data, world_size, local_rank, err, dl, opt_class,
                   tokens_per_sample, grad_acc_steps, adjusted_count,
                   total_batches, batch_idx, layer, grads, opt_log, metrics,
                   lens, counts>>

\* lines 290-324: the coordinating worker logs the step's metrics
Log ==
    /\ UNCHANGED <<lensVars, lossVars, distVars>>
    /\ pc = "log"
    /\ IF local_rank = 0 /\ self.wandb
       THEN /\ metrics' = [i \in DOMAIN metrics |-> 0]
            /\ counts' = [counts EXCEPT !.logs = @ + 1]
       ELSE UNCHANGED <<metrics, counts>>
    /\ pc' = "normalize"
    /\ UNCHANGED <<self, data, world_size, local_rank, err, dl, opt_class,
                   sched, tokens_per_sample, grad_acc_steps, adjusted_count,
                   total_batches, batch_idx, layer, grads, opt_log, stepOps,
                   lens>>

\* lines 326-328: lens.normalize_(), the last statement of the batch loop's body
Normalize ==
    /\ UNCHANGED <<lensVars, lossVars, distVars>>
    /\ pc = "normalize"
    /\ counts' = [counts EXCEPT !.normalize = @ + 1]
    /\ pc' = "next_batch"
    /\ UNCHANGED <<self, data, world_size, local_rank, err, dl, opt_class,
                   sched, tokens_per_sample, grad_acc_steps, adjusted_count,
                   total_batches, batch_idx, layer, grads, opt_log, stepOps,
                   metrics, lens>>

\* the save of lines 330-332 without its rank test
SaveEveryRank ==
    /\ UNCHANGED <<lensVars, lossVars, distVars>>
    /\ pc = "save"
    /\ counts' = [counts EXCEPT !.saves = @ + 1]
    /\ pc' = "done"
    /\ UNCHANGED <<self, data, world_size, local_rank, err, dl, opt_class,
                   sched, tokens_per_sample, grad_acc_steps, adjusted_count,
                   total_batches, batch_idx, layer, grads, opt_log, stepOps,
                   metrics, lens>>

\* lines 330-332: the coordinating worker saves the lens
Save ==
    /\ UNCHANGED <<lensVars, lossVars, distVars>>
    /\ pc = "save"
    /\ counts' = IF local_rank = 0
                 THEN [counts EXCEPT !.saves = @ + 1]
                 ELSE counts
    /\ pc' = "done"
    /\ UNCHANGED <<self, data, world_size, local_rank, err, dl, opt_class,
                   sched, tokens_per_sample, grad_acc_steps, adjusted_count,
                   total_batches, batch_idx, layer, grads, opt_log, stepOps,
                   metrics, lens>>

Next ==
    \/ Setup
    \/ BuildOptimizer
    \/ BuildScheduler
    \/ Resume
    \/ BatchMath
    \/ NextBatch
    \/ ModelForward
    \/ SelectLabels
    \/ LayerStep
    \/ StepCheck
    \/ Clip
    \/ OptStep
    \/ ZeroGrad
    \/ SchedStep
    \/ Log
    \/ Normalize
    \/ Save

Spec == Init /\ [][Next]_vars

\* The same program on the configurations of the batch arithmetic's worked
\* examples (1000 or 1100 tokens per step, samples of 100 or 150 tokens,
\* batches of 2 or 3) beside the small ones
InitBatchMath ==
    InitWith(Configs((1..MaxTokens) \cup {1000, 1100}, (1..MaxBatch) \cup {3},
                     OptimizerValues, {"ce"}, {None}, {None}, {FALSE}),
             {1, 2, 100, 150}, 1..MaxWorld)

SpecBatchMath == InitBatchMath /\ [][Next]_vars

\* ------------------------------------------------------------ the claims
\* positions before the batch arithmetic of lines 187-216 has passed
BeforeTraining == {"start", "build_opt", "scheduler", "resume", "batch_math"}

\* the configuration checks have passed: the run is in, or past, the batch loop
PassedChecks ==
    \/ pc \in {"next_batch", "forward", "labels", "layer", "step_check", "clip",
               "opt_step", "zero_grad", "sched_step", "log", "normalize",
               "save", "done"}
    \/ pc = "error" /\ err \in {"RuntimeError: collate",
                                "NotImplementedError: Unknown loss"}

\* C1: with grad_acc_steps > 1, whenever the run is between micro-batches or
\* has ended, normalize_ has been called exactly once per optimizer step.
C1_NormalizeOncePerOptimizerStep ==
    (grad_acc_steps > 1 /\ pc \in {"next_batch", "save", "done"})
        => counts.normalize = Len(opt_log)

\* C2: a run that reaches the end of execute() has done exactly num_steps
\* optimizer steps, each built from exactly grad_acc_steps micro-batches
\* (NumLayers backward passes per micro-batch).
C2_ExactlyNumStepsBeforeSave ==
    /\ pc = "done" => Len(opt_log) = self.num_steps
    /\ \A k \in 1..Len(opt_log) : opt_log[k].acc = grad_acc_steps * NumLayers

\* C3: once the checks have passed, grad_acc_steps is the ceiling of
\* tokens_per_step / (per_worker_batch * world_size * tokens_per_sample); the
\* effective token count is never less than tokens_per_step, equals it (and no
\* adjusted count is reported) when the division is exact, and is the reported
\* adjusted count otherwise; (1000, 100, 2, 1) gives 5 with no adjustment and
\* (1100, 100, 3, 1) gives 4 with 1200 effective tokens.
C3_GradAccStepsIsCeiling ==
    PassedChecks =>
        LET unit == self.per_gpu_batch_size * world_size * tokens_per_sample
            effective == grad_acc_steps * unit
        IN  /\ (grad_acc_steps - 1) * unit < self.tokens_per_step
            /\ self.tokens_per_step <= effective
            /\ (self.tokens_per_step % unit = 0)
                   => (effective = self.tokens_per_step /\ adjusted_count = None)
            /\ (self.tokens_per_step % unit # 0)
                   => adjusted_count = Some(effective)
            /\ (/\ self.tokens_per_step = 1000 /\ tokens_per_sample = 100
                /\ self.per_gpu_batch_size = 2 /\ world_size = 1)
                   => (grad_acc_steps = 5 /\ adjusted_count = None)
            /\ (/\ self.tokens_per_step = 1100 /\ tokens_per_sample = 100
                /\ self.per_gpu_batch_size = 3 /\ world_size = 1)
                   => (grad_acc_steps = 4 /\ adjusted_count = Some(1200))

C3_Witness ==
    /\ pc = "next_batch"
    /\ self.tokens_per_step = 1100 /\ tokens_per_sample = 100
    /\ self.per_gpu_batch_size = 3 /\ world_size = 1
    /\ grad_acc_steps = 4
    /\ adjusted_count = Some(1200)

\* C4: when tokens_per_step is not a multiple of tokens_per_sample, the run
\* never gets past the batch arithmetic: it ends in an error, and no
\* micro-batch, forward pass, optimizer step, normalization or save happens.
C4_NonDivisibleAbortsBeforeTraining ==
    (data # <<>> /\ self.tokens_per_step % data[1] # 0) =>
        /\ pc \in BeforeTraining \cup {"error"}
        /\ pc = "error" => err \in {"ValueError: Unknown optimizer",
                                    "AssertionError", "IsADirectoryError",
                                    "ValueError: tokens per step not divisible"}
        /\ batch_idx = 0
        /\ counts.model_fwd = 0
        /\ counts.lens_fwd = 0
        /\ counts.normalize = 0
        /\ counts.saves = 0
        /\ opt_log = <<>>

C4_Witness ==
    /\ pc = "error"
    /\ err = "ValueError: tokens per step not divisible"
    /\ self.tokens_per_step = 1000
    /\ data[1] = 150

\* C5: an unknown objective name and an unknown optimizer name are raised
\* before the first forward pass of the base model and before any lens
\* forward/backward.
C5_UnknownNamesBeforeCompute ==
    (pc = "error" /\ err \in {"ValueError: Unknown optimizer",
                              "NotImplementedError: Unknown loss"})
        => (counts.model_fwd = 0 /\ counts.lens_fwd = 0 /\ counts.backward = 0)

\* C6: a run on a dataset in which some sample's length differs from the first
\* sample's processes no micro-batch (no forward pass, no optimizer step) and
\* does not run to its end.
C6_MixedLengthsAbortBeforeAnyStep ==
    (\E i \in 1..Len(data) : data[i] # data[1])
        => /\ counts.model_fwd = 0
           /\ counts.lens_fwd = 0
           /\ opt_log = <<>>
           /\ pc # "done"

\* C7: in every optimizer step the statements run in the order clip,
\* optimizer step, gradient reset, scheduler step; the optimizer steps on
\* gradients that were clipped to norm 1 and not changed since; the
\* gradients are reset before the scheduler steps; and outside a step the
\* optimizer and the scheduler have stepped equally often.
C7_ClipStepResetSchedule ==
    LET order == <<"clip", "opt_step", "zero_grad", "sched_step">>
    IN  /\ \E k \in 0..Len(order) : stepOps = SubSeq(order, 1, k)
        /\ pc = "opt_step" => (stepOps = <<"clip">> /\ grads.clipped = Some(1))
        /\ pc = "log" => stepOps = order
        /\ \A k \in 1..Len(opt_log) : opt_log[k].clipped = Some(1)
        /\ pc = "sched_step" => (grads.acc = 0 /\ stepOps[Len(stepOps)] = "zero_grad")
        /\ (sched # None /\ pc \notin {"zero_grad", "sched_step"})
               => The(sched).last_epoch = Len(opt_log)
        /\ (sched # None /\ pc \in {"zero_grad", "sched_step"})
               => The(sched).last_epoch + 1 = Len(opt_log)

C7_Witness ==
    /\ pc = "log"
    /\ Len(opt_log) = 2
    /\ The(sched).last_epoch = 2
    /\ stepOps = <<"clip", "opt_step", "zero_grad", "sched_step">>

\* C8: with 0 <= W < num_steps, the multiplier of the k-th optimizer step
\* (k = 0, 1, ...) is k / W during warmup and (num_steps - k) / (num_steps - W)
\* afterwards, so it is strictly positive for W <= k < num_steps.
C8_LinearDecayOverRemainingSteps ==
    (sched # None /\ The(sched).num_warmup_steps < self.num_steps) =>
        \A i \in 1..Len(opt_log) :
            LET k == opt_log[i].epoch
                W == The(sched).num_warmup_steps
                lr == opt_log[i].lr
            IN  /\ k < W => lr[1] * W = k * lr[2]
                /\ (W <= k /\ k < self.num_steps) =>
                       /\ lr[1] > 0
                       /\ lr[1] * (self.num_steps - W) = (self.num_steps - k) * lr[2]

\* C9: with either member of OptimizerOption the optimizer is built and the
\* run is not ended by the unknown-optimizer error.
C9_RecognizedOptimizersAccepted ==
    self.optimizer \in {SGD, ADAM} =>
        /\ err # "ValueError: Unknown optimizer"
        /\ pc \notin {"start", "build_opt"} =>
               opt_class = (IF self.optimizer = SGD THEN "SGD" ELSE "Adam")

\* C10: a run resumed from a directory written by save gets past the resume
\* without error, with the checkpoint's weights in the lens and the optimizer
\* and scheduler counters at zero.
C10_ResumeRestoresCheckpoint ==
    self.resume = Some("save_dir") =>
        /\ err \notin {"AssertionError", "IsADirectoryError",
                       "RuntimeError: state_dict keys"}
        /\ pc \in {"batch_math", "next_batch"} /\ batch_idx = 0 =>
               /\ lens.weights = "checkpoint"
               /\ opt_log = <<>>
               /\ The(sched).last_epoch = 0

\* C11: only the worker of rank 0 records per-layer metrics, writes to the
\* experiment log and saves the lens; the lens is saved at most once, only
\* when the run has ended without error (no step follows the save), and a
\* run that ended in an error has saved nothing.
C11_OnlyRankZeroLogsAndSavesOnce ==
    /\ local_rank # 0 =>
           /\ counts.logs = 0
           /\ counts.saves = 0
           /\ \A i \in DOMAIN metrics : metrics[i] = 0
    /\ counts.saves <= 1
    /\ counts.saves = 1 => pc = "done" /\ err = "none"
    /\ pc = "done" /\ local_rank = 0 => counts.saves = 1
    /\ pc = "error" => counts.saves = 0

\* a two-worker run whose rank-0 worker has logged every step and saved
C11_Witness ==
    /\ pc = "done" /\ local_rank = 0 /\ world_size = 2
    /\ counts.saves = 1 /\ counts.logs = MaxSteps /\ Len(opt_log) = MaxSteps

\* ======================================================== nn/lenses.py
\* ------------------------------------------------- tensors of exact numbers
\* A tensor entry is a fraction <<numerator, denominator>> in lowest terms with
\* a positive denominator; a vector is a sequence of entries and a matrix a
\* sequence of rows.  Positions are counted from 1 here and from 0 in Python.
Abs(x) == IF x < 0 THEN -x ELSE x

RECURSIVE GCD(_, _)
GCD(a, b) == IF b = 0 THEN a ELSE GCD(b, a % b)

Rat(n, d) ==
    LET g == GCD(Abs(n), Abs(d))
        sgn == IF d < 0 THEN -1 ELSE 1
    IN  <<sgn * (n \div g), sgn * (d \div g)>>

Num(n) == Rat(n, 1)
RAdd(x, y) == Rat(x[1] * y[2] + y[1] * x[2], x[2] * y[2])
RSub(x, y) == Rat(x[1] * y[2] - y[1] * x[2], x[2] * y[2])
RMul(x, y) == Rat(x[1] * y[1], x[2] * y[2])

RECURSIVE SumSeq(_)
SumSeq(v) == IF v = <<>> THEN Num(0) ELSE RAdd(v[1], SumSeq(Tail(v)))

\* tensor.mean() of a vector
Mean(v) == LET t == SumSeq(v) IN Rat(t[1], t[2] * Len(v))

\* column c of the matrix A, and A.mean(dim=0)[c]
Column(A, c) == [r \in 1..Len(A) |-> A[r][c]]
ColumnMean(A, c) == Mean(Column(A, c))

\* tensor.zero_() on a vector and on a square matrix
Zeros(d) == [r \in 1..d |-> Num(0)]
ZeroMatrix(d) == [r \in 1..d |-> Zeros(d)]

\* th.nn.Linear.forward: A h + b
LinearForward(t, h) ==
    [r \in 1..Len(t.weight) |->
        RAdd(SumSeq([c \in 1..Len(h) |-> RMul(t.weight[r][c], h[c])]),
             t.bias[r])]

VecAdd(x, y) == [r \in 1..Len(x) |-> RAdd(x[r], y[r])]

\* the body of normalize_'s loop with the weight's mean taken along each row
\* (dim=1) instead of along each column
NormalizeTranslatorAlongRows(t) ==
    [weight |-> [r \in 1..Len(t.weight) |->
                    [c \in 1..Len(t.weight) |->
                        RSub(t.weight[r][c], Mean(t.weight[r]))]],
     bias |-> [r \in 1..Len(t.bias) |-> RSub(t.bias[r], Mean(t.bias))]]

\* lines 301-306, the body of normalize_'s loop:
\* A -= A.mean(dim=0, keepdim=True); b -= b.mean()
NormalizeTranslator(t) ==
    [weight |-> [r \in 1..Len(t.weight) |->
                    [c \in 1..Len(t.weight) |->
                        RSub(t.weight[r][c], ColumnMean(t.weight, c))]],
     bias |-> [r \in 1..Len(t.bias) |-> RSub(t.bias[r], Mean(t.bias))]]

\* ------------------------------------------------------- TunedLensConfig
\* Values held in a Python dict or a JSON object are kept as Optional values:
\* None is Python's None, Some(v) is the value v.
Fields ==
    {"base_model_name_or_path", "d_model", "num_hidden_layers", "bias",
     "base_model_revision", "unemebd_hash", "lens_type"}

\* the fields declared without a default
RequiredFields == {"base_model_name_or_path", "d_model", "num_hidden_layers"}

\* the fields declared Optional[str]
OptionalFields == {"base_model_revision", "unemebd_hash"}

\* the defaults of lines 103-109
DefaultOf(f) ==
    CASE f = "bias" -> TRUE
      [] f = "base_model_revision" -> None
      [] f = "unemebd_hash" -> None
      [] f = "lens_type" -> "linear_tuned_lens"

\* inspect.getfullargspec(cls).args of the dataclass: the parameters of the
\* generated __init__, the instance parameter first
InitArgs == {"self"} \cup Fields

\* cls(**kwargs): the generated __init__ called with keyword arguments
NewConfig(kwargs) ==
    IF "self" \in DOMAIN kwargs
    THEN [raised |-> "TypeError: multiple values for argument 'self'",
          value |-> None]
    ELSE IF ~(DOMAIN kwargs \subseteq Fields)
    THEN [raised |-> "TypeError: unexpected keyword argument", value |-> None]
    ELSE IF ~(RequiredFields \subseteq DOMAIN kwargs)
    THEN [raised |-> "TypeError: missing required argument", value |-> None]
    ELSE [raised |-> "none",
          value |-> Some([f \in Fields |->
                            IF f \notin DOMAIN kwargs THEN DefaultOf(f)
                            ELSE IF f \in OptionalFields THEN kwargs[f]
                            ELSE The(kwargs[f])])]

\* warning(f"Ignoring config key '{key}'")
IgnoringKey(key) == <<"Ignoring config key", key>>

\* lines 116-126, TunedLensConfig.from_dict: the warnings it logs, what it
\* raises or returns, and the caller's dictionary after the call (the keys
\* are deleted from the deep copy)
FromDict(d) ==
    LET copy == d
        unrecognized == DOMAIN copy \ InitArgs
        kept == [k \in DOMAIN copy \ unrecognized |-> copy[k]]
        made == NewConfig(kept)
    IN  [warnings |-> SetToBag({IgnoringKey(k) : k \in unrecognized}),
         raised |-> made.raised,
         value |-> made.value,
         caller |-> d]

\* lines 112-114, to_dict: dataclasses.asdict
ToDict(c) == [f \in Fields |-> IF f \in OptionalFields THEN c[f] ELSE Some(c[f])]

\* json.dump and json.load of a flat object: None is written as null
JsonDump(d) ==
    [k \in DOMAIN d |-> IF IsNone(d[k]) THEN <<"null">> ELSE <<"value", The(d[k])>>]

JsonLoad(j) ==
    [k \in DOMAIN j |-> IF j[k][1] = "null" THEN None ELSE Some(j[k][2])]

\* unembed.unembedding_hash(): the fingerprint of a decode adapter; distinct
\* adapters have distinct fingerprints
Unembeds == {"u1", "u2"}
UnembeddingHash(u) == <<"hash", u>>

\* the training loop is not running
NoTrainingLoop ==
    /\ self = None
    /\ data = <<>>
    /\ world_size = 1
    /\ local_rank = 0
    /\ pc = "idle"
    /\ err = "none"
    /\ dl = <<>>
    /\ opt_class = "none"
    /\ sched = None
    /\ tokens_per_sample = 0
    /\ grad_acc_steps = 0
    /\ adjusted_count = None
    /\ total_batches = 0
    /\ batch_idx = 0
    /\ layer = 0
    /\ grads = [acc |-> 0, clipped |-> None]
    /\ opt_log = <<>>
    /\ stepOps = <<>>
    /\ metrics = <<>>
    /\ lens = [weights |-> "initial", updates |-> 0]
    /\ counts = [model_fwd |-> 0, lens_fwd |-> 0, backward |-> 0,
                 normalize |-> 0, logs |-> 0, saves |-> 0]
    /\ NoTensorsNoWorkers

\* keys a config file may carry beside the dataclass's fields: the hash key as
\* the persisted format spells it, a key of another version, and "self"
ExtraKeys == {"unembed_hash", "foo", "self"}

\* a dictionary with the keys K out of the candidate entries e
Pick(e, K) == [k \in K |-> e[k]]

\* the dictionaries handed to from_dict: every required key, any of the other
\* fields and any extra keys
ConfigDicts ==
    LET entries ==
            [base_model_name_or_path : {Some("m")},
             d_model : {Some(d) : d \in 1..MaxDModel},
             num_hidden_layers : {Some(n) : n \in 1..NumLayers},
             bias : {Some(TRUE), Some(FALSE)},
             base_model_revision : {None, Some("main")},
             unemebd_hash : {None, Some(UnembeddingHash("u1"))},
             lens_type : {Some("linear_tuned_lens")},
             unembed_hash : {Some(UnembeddingHash("u1"))},
             foo : {Some("x")},
             self : {Some("x")}]
    IN  {Pick(e, K) : e \in entries,
                      K \in {RequiredFields \cup O \cup X :
                                O \in SUBSET (Fields \ RequiredFields),
                                X \in SUBSET ExtraKeys}}

\* a caller holds a dictionary and has not called from_dict yet
InitFromDict ==
    /\ NoTrainingLoop
    /\ configs = <<>>
    /\ lenses = <<>>
    /\ files = None
    /\ warnings = <<>>
    /\ ret = None
    /\ config_dict \in {Some(d) : d \in ConfigDicts}
    /\ num_updates = 0

\* TunedLensConfig.from_dict(config_dict)
CallFromDict ==
    /\ pc = "idle"
    /\ ~IsNone(config_dict)
    /\ IsNone(ret)
    /\ LET r == FromDict(The(config_dict))
       IN  /\ warnings' = r.warnings
           /\ ret' = Some([raised |-> r.raised, value |-> r.value])
           /\ config_dict' = Some(r.caller)
    /\ UNCHANGED <<configs, lenses, files, num_updates>>
    /\ UNCHANGED <<loopVars, lossVars, distVars>>

NextFromDict == CallFromDict

SpecFromDict == InitFromDict /\ [][NextFromDict]_vars

\* C17: for a dictionary with every required key and any extra keys, from_dict
\* raises nothing, logs exactly one warning for each key that is not a field,
\* returns a config whose fields hold the dictionary's values (the default
\* where the key is absent), and leaves the caller's dictionary with all its
\* keys.
C17_FromDictDropsUnrecognizedKeys ==
    ~IsNone(ret) =>
        LET d == The(config_dict)
            r == The(ret)
        IN  /\ r.raised = "none"
            /\ warnings = SetToBag({IgnoringKey(k) : k \in DOMAIN d \ Fields})
            /\ ~IsNone(r.value)
            /\ \A f \in Fields :
                   The(r.value)[f] =
                       IF f \notin DOMAIN d THEN DefaultOf(f)
                       ELSE IF f \in OptionalFields THEN d[f]
                       ELSE The(d[f])

\* ------------------------------------------------------- the lens classes
\* A LogitLens is [kind, unembed]; a TunedLens is [kind, unembed, config,
\* layer_translators], config being the identity of its TunedLensConfig object
\* and layer_translators the ModuleList of Linear modules [weight, bias].

\* unembed.forward(h): the decode adapter's logits for h
UnembedForward(u, h) == <<"logits", u, h>>

\* lines 136-160, TunedLens.__init__(unembed, config) on the config objects
\* cfgs: the config objects afterwards, and the lens or the exception.  With
\* bias=False the Linear module's bias is None, and line 154 reads .data of it.
NewTunedLens(cfgs, u, cid) ==
    LET stamped == [cfgs EXCEPT ![cid]["unemebd_hash"] = Some(UnembeddingHash(u))]
        config == stamped[cid]
        translator == [weight |-> ZeroMatrix(config["d_model"]),
                       bias |-> Zeros(config["d_model"])]
    IN  IF ~config["bias"]
        THEN [raised |-> "AttributeError: 'NoneType' object has no attribute 'data'",
              configs |-> stamped, lens |-> None]
        ELSE [raised |-> "none",
              configs |-> stamped,
              lens |-> Some([kind |-> "tuned", unembed |-> u, config |-> cid,
                             layer_translators |->
                                 [i \in 1..config["num_hidden_layers"] |-> translator]])]

\* lines 162-164, __getitem__: ModuleList indexing, which counts a negative
\* index from the end and raises IndexError outside -len..len-1
GetItem(this, idx) ==
    LET n == Len(this.layer_translators)
    IN  IF idx < -n \/ idx >= n
        THEN [raised |-> "IndexError", value |-> None]
        ELSE [raised |-> "none",
              value |-> Some(this.layer_translators[(IF idx < 0 THEN idx + n ELSE idx) + 1])]

\* transform_hidden(h, idx): lines 77-79 (LogitLens: del idx; return h) and
\* lines 308-312 (TunedLens: h + self[idx](h))
TransformHidden(this, h, idx) ==
    IF this.kind = "logit"
    THEN [raised |-> "none", value |-> Some(h)]
    ELSE LET t == GetItem(this, idx)
         IN  IF t.raised # "none" THEN t
             ELSE [raised |-> "none",
                   value |-> Some(VecAdd(h, LinearForward(The(t.value), h)))]

\* forward(h, idx): lines 81-90 (LogitLens: del idx; unembed.forward(h)) and
\* lines 314-318 (TunedLens: unembed.forward(self.transform_hidden(h, idx)))
Forward(this, h, idx) ==
    IF this.kind = "logit"
    THEN [raised |-> "none", value |-> Some(UnembedForward(this.unembed, h))]
    ELSE LET t == TransformHidden(this, h, idx)
         IN  IF t.raised # "none" THEN t
             ELSE [raised |-> "none",
                   value |-> Some(UnembedForward(this.unembed, The(t.value)))]

\* the config objects a caller builds: TunedLensConfig(name, d_model, n, bias)
NewConfigs ==
    {The(NewConfig([base_model_name_or_path |-> Some("m"), d_model |-> Some(d),
                    num_hidden_layers |-> Some(n), bias |-> Some(b)]).value) :
        d \in 1..MaxDModel, n \in 1..NumLayers, b \in BOOLEAN}

\* the hidden states of width d lenses are applied to: 1, 2, .., d
HiddenStates(d) == {[r \in 1..d |-> Num(r)]}

\* the layer indices callers pass, valid ones and ones on either side
LayerIndices == (-(NumLayers + 1))..(NumLayers + 1)

\* the batches training may see, and the step -lr * grad an optimizer step
\* makes on the parameter in row r, column c (0: the bias) of translator i
\* after the batch seed: an integer in -2..2
BatchSeeds == {1, 2}
ParamStep(seed, i, r, c) == Num(((seed * (4 * i + 2 * r + c)) % 5) - 2)

TunedIds == {l \in 1..Len(lenses) : lenses[l].kind = "tuned"}

\* the outcome of a call of the method or constructor named call
Outcome(call, l, args, raised, value) ==
    Some([call |-> call, lens |-> l, args |-> args, raised |-> raised,
          value |-> value])

\* a caller has built one config object and no lens
InitLens ==
    /\ NoTrainingLoop
    /\ configs \in {<<c>> : c \in NewConfigs}
    /\ lenses = <<>>
    /\ files = None
    /\ warnings = <<>>
    /\ ret = None
    /\ config_dict = None
    /\ num_updates = 0

\* TunedLens(unembed, config)
CallTunedLens ==
    /\ pc = "idle"
    /\ Len(lenses) < MaxLenses
    /\ \E u \in Unembeds, cid \in 1..Len(configs) :
           LET r == NewTunedLens(configs, u, cid)
           IN  /\ configs' = r.configs
               /\ lenses' = IF r.raised = "none"
                            THEN Append(lenses, The(r.lens))
                            ELSE lenses
               /\ ret' = Outcome("TunedLens", Len(lenses'), <<u, cid>>,
                                 r.raised, None)
    /\ warnings' = <<>>
    /\ UNCHANGED <<files, config_dict, num_updates>>
    /\ UNCHANGED <<loopVars, lossVars, distVars>>

\* LogitLens(unembed), lines 62-75
CallLogitLens ==
    /\ pc = "idle"
    /\ Len(lenses) < MaxLenses
    /\ \E u \in Unembeds :
           /\ lenses' = Append(lenses, [kind |-> "logit", unembed |-> u])
           /\ ret' = Outcome("LogitLens", Len(lenses'), <<u>>, "none", None)
    /\ warnings' = <<>>
    /\ UNCHANGED <<configs, files, config_dict, num_updates>>
    /\ UNCHANGED <<loopVars, lossVars, distVars>>

\* an optimizer step on the lens l: every parameter of every translator moves
\* by the step the gradients of the batch seed give it
TrainUpdate ==
    /\ pc = "idle"
    /\ num_updates < MaxUpdates
    /\ \E l \in TunedIds, seed \in BatchSeeds :
           lenses' = [lenses EXCEPT ![l].layer_translators =
                         [i \in 1..Len(@) |->
                             [weight |-> [r \in 1..Len(@[i].weight) |->
                                             [c \in 1..Len(@[i].weight) |->
                                                 RAdd(@[i].weight[r][c],
                                                      ParamStep(seed, i, r, c))]],
                              bias |-> [r \in 1..Len(@[i].bias) |->
                                           RAdd(@[i].bias[r],
                                                ParamStep(seed, i, r, 0))]]]]
    /\ num_updates' = num_updates + 1
    /\ ret' = None
    /\ warnings' = <<>>
    /\ UNCHANGED <<configs, files, config_dict>>
    /\ UNCHANGED <<loopVars, lossVars, distVars>>

\* lens.normalize_(), lines 299-306
CallNormalize ==
    /\ pc = "idle"
    /\ \E l \in TunedIds :
           /\ lenses' = [lenses EXCEPT ![l].layer_translators =
                            [i \in 1..Len(@) |-> NormalizeTranslator(@[i])]]
           /\ ret' = Outcome("normalize_", l, <<>>, "none", None)
    /\ warnings' = <<>>
    /\ UNCHANGED <<configs, files, config_dict, num_updates>>
    /\ UNCHANGED <<loopVars, lossVars, distVars>>

\* the width of the hidden states the lens l is applied to
WidthOf(l) ==
    IF lenses[l].kind = "tuned" THEN configs[lenses[l].config]["d_model"]
    ELSE MaxDModel

\* lens.transform_hidden(h, idx)
CallTransformHidden ==
    /\ pc = "idle"
    /\ \E l \in 1..Len(lenses) :
       \E h \in HiddenStates(WidthOf(l)), idx \in LayerIndices :
           LET r == TransformHidden(lenses[l], h, idx)
           IN  ret' = Outcome("transform_hidden", l, <<h, idx>>, r.raised, r.value)
    /\ warnings' = <<>>
    /\ UNCHANGED <<configs, lenses, files, config_dict, num_updates>>
    /\ UNCHANGED <<loopVars, lossVars, distVars>>

\* lens.forward(h, idx)
CallForward ==
    /\ pc = "idle"
    /\ \E l \in 1..Len(lenses) :
       \E h \in HiddenStates(WidthOf(l)), idx \in LayerIndices :
           LET r == Forward(lenses[l], h, idx)
           IN  ret' = Outcome("forward", l, <<h, idx>>, r.raised, r.value)
    /\ warnings' = <<>>
    /\ UNCHANGED <<configs, lenses, files, config_dict, num_updates>>
    /\ UNCHANGED <<loopVars, lossVars, distVars>>

\* lenses are constructed and applied to hidden states
NextLens ==
    \/ CallTunedLens
    \/ CallLogitLens
    \/ CallTransformHidden
    \/ CallForward

SpecLens == InitLens /\ [][NextLens]_vars

\* -------------------------------------------------------- save and load
\* layer_translators.state_dict(): the parameters by "<index>.<name>"
StateDict(translators) ==
    [k \in (0..(Len(translators) - 1)) \X {"weight", "bias"} |->
        IF k[2] = "weight" THEN translators[k[1] + 1].weight
        ELSE translators[k[1] + 1].bias]

\* layer_translators.load_state_dict(state), strict: the keys must be the
\* module's own and every tensor must have its parameter's shape
LoadStateDict(translators, state) ==
    LET keys == (0..(Len(translators) - 1)) \X {"weight", "bias"}
    IN  IF DOMAIN state # keys
        THEN [raised |-> "RuntimeError: missing or unexpected keys", value |-> None]
        ELSE IF \E k \in keys : Len(state[k]) # Len(translators[k[1] + 1].bias)
        THEN [raised |-> "RuntimeError: size mismatch", value |-> None]
        ELSE [raised |-> "none",
              value |-> Some([i \in 1..Len(translators) |->
                                 [weight |-> state[<<i - 1, "weight">>],
                                  bias |-> state[<<i - 1, "bias">>]]])]

\* lines 278-297, save: the two files of the directory
SavedDirectory(this, cfgs) ==
    [ckpt |-> StateDict(this.layer_translators),
     config |-> JsonDump(ToDict(cfgs[this.config]))]

\* the keyword-only parameters of load_lens_artifacts and of th.load
ArtifactKwargs == {"revision"}
LoadKwargs == {"weights_only"}

\* the keyword arguments callers pass: none, recognized ones, another one
KwargsInputs == {{}, {"revision"}, {"revision", "weights_only"}, {"bogus"}}

\* line 247: the list [k not in (artifact_kwargs | load_kwargs) for k in kwargs]
UnrecognizedList(kwargs) ==
    [k \in kwargs |-> k \notin (ArtifactKwargs \cup LoadKwargs)]

\* the truth value of a list: it is not empty
Truthy(list) == DOMAIN list # {}

\* warning("The unembeding matrix hash does not match the lens' hash. ...")
HashMismatch == <<"The unembeding matrix hash does not match the lens' hash.">>

\* lines 226-276, from_unembed_and_pretrained(unembed, id, **kwargs) with the
\* directory dir and the config objects cfgs: what it raises, the warnings it
\* logs, the config objects afterwards and the lens it returns
FromUnembedAndPretrained(cfgs, dir, u, kwargs) ==
    LET parsed == FromDict(JsonLoad(dir.config))
        config == The(parsed.value)
        mismatch == /\ ~IsNone(config["unemebd_hash"])
                    /\ UnembeddingHash(u) # The(config["unemebd_hash"])
        logged == IF mismatch
                  THEN parsed.warnings (+) SetToBag({HashMismatch})
                  ELSE parsed.warnings
        cid == Len(cfgs) + 1
        made == NewTunedLens(Append(cfgs, config), u, cid)
        loaded == LoadStateDict(The(made.lens).layer_translators, dir.ckpt)
        failed(e, w) == [raised |-> e, warnings |-> w, configs |-> cfgs,
                         lens |-> None]
    IN  IF Truthy(UnrecognizedList(kwargs))
        THEN failed("ValueError: Unrecognized keyword argument(s)", EmptyBag)
        ELSE IF parsed.raised # "none" THEN failed(parsed.raised, parsed.warnings)
        ELSE IF made.raised # "none" THEN failed(made.raised, logged)
        ELSE IF loaded.raised # "none" THEN failed(loaded.raised, logged)
        ELSE [raised |-> "none", warnings |-> logged, configs |-> made.configs,
              lens |-> Some([The(made.lens) EXCEPT
                                !.layer_translators = The(loaded.value)])]

\* a directory in the persisted format, for a lens of the shape of config c
\* tuned with the adapter u: the hash is under the key unembed_hash
PersistedArtifact(c, u) ==
    [ckpt |-> StateDict([i \in 1..c["num_hidden_layers"] |->
                            [weight |-> ZeroMatrix(c["d_model"]),
                             bias |-> Zeros(c["d_model"])]]),
     config |-> JsonDump(
         [base_model_name_or_path |-> Some(c["base_model_name_or_path"]),
          d_model |-> Some(c["d_model"]),
          num_hidden_layers |-> Some(c["num_hidden_layers"]),
          bias |-> Some(TRUE),
          base_model_revision |-> None,
          unembed_hash |-> Some(UnembeddingHash(u)),
          lens_type |-> Some("linear_tuned_lens")])]

\* a caller has built one config object; the disk holds no lens directory or
\* one in the persisted format
InitStore ==
    /\ NoTrainingLoop
    /\ configs \in {<<c>> : c \in NewConfigs}
    /\ lenses = <<>>
    /\ files \in {None, Some(PersistedArtifact(configs[1], "u1"))}
    /\ warnings = <<>>
    /\ ret = None
    /\ config_dict = None
    /\ num_updates = 0

\* lens.save(path)
CallSave ==
    /\ pc = "idle"
    /\ \E l \in TunedIds :
           /\ files' = Some(SavedDirectory(lenses[l], configs))
           /\ ret' = Outcome("save", l, <<>>, "none", None)
    /\ warnings' = <<>>
    /\ UNCHANGED <<configs, lenses, config_dict, num_updates>>
    /\ UNCHANGED <<loopVars, lossVars, distVars>>

\* TunedLens.from_unembed_and_pretrained(unembed, path, **kwargs), also reached
\* through from_model_and_pretrained (lines 198-224)
CallLoad ==
    /\ pc = "idle"
    /\ ~IsNone(files)
    /\ Len(configs) <= MaxLoads
    /\ \E u \in Unembeds,
          kwargs \in KwargsInputs :
           LET r == FromUnembedAndPretrained(configs, The(files), u, kwargs)
           IN  /\ configs' = r.configs
               /\ lenses' = IF r.raised = "none"
                            THEN Append(lenses, The(r.lens))
                            ELSE lenses
               /\ warnings' = r.warnings
               /\ ret' = Outcome("from_unembed_and_pretrained", Len(lenses'),
                                 <<u, kwargs>>, r.raised, None)
    /\ UNCHANGED <<files, config_dict, num_updates>>
    /\ UNCHANGED <<loopVars, lossVars, distVars>>

\* lenses are constructed, trained, saved and loaded
NextStore ==
    \/ CallTunedLens
    \/ TrainUpdate
    \/ CallSave
    \/ CallLoad

SpecStore == InitStore /\ [][NextStore]_vars

\* lenses are constructed, trained and normalized
NextTrain ==
    \/ CallTunedLens
    \/ TrainUpdate
    \/ CallNormalize

SpecTrain == InitLens /\ [][NextTrain]_vars

\* ------------------------------------------------------------ the claims
\* the last call was one of the methods named in calls
LastCall(calls) == ~IsNone(ret) /\ The(ret).call \in calls

\* C13: transform_hidden(h, i) and forward(h, i), of either lens class, raise
\* the index error for every i < 0 and, for a TunedLens of n layers, for
\* every i >= n, and return a value for 0 <= i < n.
C13_LayerIndexOutOfRangeFails ==
    LastCall({"transform_hidden", "forward"}) =>
        LET r == The(ret)
            this == lenses[r.lens]
            idx == r.args[2]
        IN  /\ idx < 0 => r.raised = "IndexError"
            /\ this.kind = "tuned" =>
                   LET n == configs[this.config]["num_hidden_layers"]
                   IN  /\ idx >= n => r.raised = "IndexError"
                       /\ idx \in 0..(n - 1) =>
                              r.raised = "none" /\ ~IsNone(r.value)

\* C18: TunedLens(unembed, config) raises nothing for a config of any width,
\* any number of layers and either bias flag, and a constructed lens that has
\* not been trained has num_hidden_layers translators, all of them zero, and
\* transform_hidden(h, i) = h for every i in 0..num_hidden_layers-1.
C18_ConstructionGivesZeroTranslators ==
    /\ LastCall({"TunedLens"}) => The(ret).raised = "none"
    /\ \A l \in TunedIds :
           LET this == lenses[l]
               config == configs[this.config]
               d == config["d_model"]
               n == config["num_hidden_layers"]
           IN  /\ Len(this.layer_translators) = n
               /\ \A i \in 1..n :
                      this.layer_translators[i] =
                          [weight |-> ZeroMatrix(d), bias |-> Zeros(d)]
               /\ \A h \in HiddenStates(d), idx \in 0..(n - 1) :
                      TransformHidden(this, h, idx) =
                          [raised |-> "none", value |-> Some(h)]

\* the translator t is normalized: every column of its weight and its bias
\* have mean zero
Centered(t) ==
    /\ \A c \in 1..Len(t.weight) : ColumnMean(t.weight, c) = Num(0)
    /\ Mean(t.bias) = Num(0)

\* C15: after a call of normalize_ on a lens, every translator of the lens has
\* zero mean in each column of its weight and zero mean in its bias, applying
\* normalize_ again would leave every translator as it is, and the call has
\* changed nothing but that lens's translator weights and biases.
C15_NormalizeIdempotentAndCentered ==
    [][CallNormalize =>
          LET l == The(ret').lens
              after == lenses'[l].layer_translators
          IN  /\ \A i \in 1..Len(after) :
                     /\ Centered(after[i])
                     /\ NormalizeTranslator(after[i]) = after[i]
              /\ Len(after) = Len(lenses[l].layer_translators)
              /\ lenses' = [lenses EXCEPT ![l].layer_translators = after]
              /\ UNCHANGED <<configs, files, config_dict, num_updates>>]_vars

\* normalize_ has just run on a trained lens and moved a weight to a fraction
C15_Witness ==
    /\ LastCall({"normalize_"})
    /\ num_updates > 0
    /\ \E i \in 1..Len(lenses[The(ret).lens].layer_translators) :
           LET t == lenses[The(ret).lens].layer_translators[i]
           IN  /\ Centered(t)
               /\ \E r \in 1..Len(t.weight), c \in 1..Len(t.weight) :
                      t.weight[r][c][2] > 1

\* the last call was a load with the keyword arguments in kwargs
LastLoad(kwargs) ==
    LastCall({"from_unembed_and_pretrained"}) /\ The(ret).args[2] = kwargs

\* the value the loaded directory's config file holds under key, None if none
Persisted(key) ==
    LET object == JsonLoad(The(files).config)
    IN  IF key \in DOMAIN object THEN object[key] ELSE None

\* C16: a load (without keyword arguments) of a directory whose config file
\* carries, under the key unembed_hash, a hash other than the fingerprint of
\* the adapter passed in logs the hash-mismatch warning, raises nothing and
\* returns a lens.
C16_HashMismatchWarns ==
    LastLoad({}) =>
        LET carried == Persisted("unembed_hash")
            u == The(ret).args[1]
        IN  ~IsNone(carried) /\ The(carried) # UnembeddingHash(u) =>
                /\ The(ret).raised = "none"
                /\ BagIn(HashMismatch, warnings)

\* C20: a load raises 'Unrecognized keyword argument(s)' exactly when one of
\* its keyword arguments is a parameter neither of load_lens_artifacts nor of
\* th.load; a call whose keyword arguments are all recognized does not.
C20_RaisesOnlyOnUnrecognizedKwargs ==
    LastCall({"from_unembed_and_pretrained"}) =>
        LET kwargs == The(ret).args[2]
        IN  (The(ret).raised = "ValueError: Unrecognized keyword argument(s)")
                <=> (\E k \in kwargs : k \notin (ArtifactKwargs \cup LoadKwargs))

\* C14: a load, through the adapter of the lens l, that directly follows
\* l.save raises nothing and returns a lens whose translators equal those of l
\* and whose config equals l's config in every field.
C14_SaveLoadRoundTrip ==
    [][(/\ LastCall({"save"})
        /\ CallLoad
        /\ The(ret').args = <<lenses[The(ret).lens].unembed, {}>>)
       => LET saved == lenses[The(ret).lens]
              loaded == lenses'[Len(lenses')]
          IN  /\ The(ret').raised = "none"
              /\ Len(lenses') = Len(lenses) + 1
              /\ loaded.layer_translators = saved.layer_translators
              /\ \A f \in Fields :
                     configs'[loaded.config][f] = configs[saved.config][f]]_vars

\* ============================ the losses of the layer loop, lines 249-281
\* A scalar tensor is a reference to a storage; tensors[k] is the value in
\* storage k.  x.detach() is a new tensor on the storage of x, and an in-place
\* operation on a tensor writes to its storage.

\* what the loss function returns, the sparsity coefficients self.lasso, and
\* the values of param_vec.abs().sum()
LossOutputs == 1..MaxLoss
LassoValues == {0, 1, 2}
ParamAbsSums == {0, 3}

\* maybe_all_reduce(x) when torch.distributed is not initialized: x as it is
MaybeAllReduce(x) == x

\* one worker, alone, enters the layer loop for the first micro-batch of an
\* optimizer step of one or two micro-batches
InitLoss ==
    /\ self \in [lasso : LassoValues, loss : {"ce", "kl"}]
    /\ data = <<>>
    /\ world_size = 1
    /\ local_rank = 0
    /\ pc = "loss"
    /\ err = "none"
    /\ dl = <<>>
    /\ opt_class = "SGD"
    /\ sched = None
    /\ tokens_per_sample = 0
    /\ grad_acc_steps \in {1, 2}
    /\ adjusted_count = None
    /\ total_batches = grad_acc_steps
    /\ batch_idx = 1
    /\ layer = 0
    /\ grads = [acc |-> 0, clipped |-> None]
    /\ opt_log = <<>>
    /\ stepOps = <<>>
    /\ metrics = [i \in 0..(NumLayers - 1) |-> 0]
    /\ lens = [weights |-> "initial", updates |-> 0]
    /\ counts = [model_fwd |-> 1, lens_fwd |-> 0, backward |-> 0,
                 normalize |-> 0, logs |-> 0, saves |-> 0]
    /\ NoLensObjects
    /\ tensors = <<>>
    /\ loss = 0
    /\ logging_loss = 0
    /\ loss_metrics = [i \in 0..(NumLayers - 1) |-> <<>>]
    /\ objective = [i \in 0..(NumLayers - 1) |-> <<>>]
    /\ NoWorkers

\* lines 253-264: the lens's logits and the loss, a tensor on a new storage
ComputeLoss ==
    /\ pc = "loss"
    /\ \E v \in LossOutputs : tensors' = Append(tensors, v)
    /\ loss' = Len(tensors')
    /\ counts' = [counts EXCEPT !.lens_fwd = @ + 1]
    /\ pc' = "detach"
    /\ UNCHANGED <<self, data, world_size, local_rank, err, dl, opt_class,
                   sched, tokens_per_sample, grad_acc_steps, adjusted_count,
                   total_batches, batch_idx, layer, grads, opt_log, stepOps,
                   metrics, lens>>
    /\ UNCHANGED <<logging_loss, loss_metrics, objective>>
    /\ UNCHANGED <<lensVars, distVars>>

\* lines 266-270: logging_loss = loss.detach(); maybe_all_reduce(logging_loss);
\* the coordinating worker appends logging_loss to the layer's list
DetachAndRecord ==
    /\ pc = "detach"
    /\ logging_loss' = loss
    /\ tensors' = [tensors EXCEPT ![loss] = MaybeAllReduce(@)]
    /\ IF local_rank = 0
       THEN /\ loss_metrics' = [loss_metrics EXCEPT ![layer] = Append(@, logging_loss')]
            /\ objective' = [objective EXCEPT ![layer] = Append(@, tensors[loss])]
            /\ metrics' = [metrics EXCEPT ![layer] = @ + 1]
       ELSE UNCHANGED <<loss_metrics, objective, metrics>>
    /\ pc' = "lasso"
    /\ UNCHANGED <<self, data, world_size, local_rank, err, dl, opt_class,
                   sched, tokens_per_sample, grad_acc_steps, adjusted_count,
                   total_batches, batch_idx, layer, grads, opt_log, stepOps,
                   lens, counts>>
    /\ UNCHANGED loss
    /\ UNCHANGED <<lensVars, distVars>>

\* lines 272-277: if self.lasso: loss += self.lasso * param_vec.abs().sum(),
\* in place
AddLasso ==
    /\ pc = "lasso"
    /\ IF self.lasso # 0
       THEN \E a \in ParamAbsSums :
                tensors' = [tensors EXCEPT ![loss] = @ + self.lasso * a]
       ELSE UNCHANGED tensors
    /\ pc' = "backward"
    /\ UNCHANGED <<self, data, world_size, local_rank, err, dl, opt_class,
                   sched, tokens_per_sample, grad_acc_steps, adjusted_count,
                   total_batches, batch_idx, layer, grads, opt_log, stepOps,
                   metrics, lens, counts>>
    /\ UNCHANGED <<loss, logging_loss, loss_metrics, objective>>
    /\ UNCHANGED <<lensVars, distVars>>

\* lines 279-281: scaled_loss = loss / grad_acc_steps; scaled_loss.backward();
\* then the next layer, the next micro-batch of the step, or the step's end
ScaledBackward ==
    /\ pc = "backward"
    /\ counts' = [counts EXCEPT !.backward = @ + 1]
    /\ grads' = [acc |-> grads.acc + 1, clipped |-> None]
    /\ IF layer + 1 < NumLayers
       THEN layer' = layer + 1 /\ batch_idx' = batch_idx /\ pc' = "loss"
       ELSE IF batch_idx < total_batches
       THEN layer' = 0 /\ batch_idx' = batch_idx + 1 /\ pc' = "loss"
       ELSE layer' = layer /\ batch_idx' = batch_idx /\ pc' = "step_check"
    /\ UNCHANGED <<self, data, world_size, local_rank, err, dl, opt_class,
                   sched, tokens_per_sample, grad_acc_steps, adjusted_count,
                   total_batches, opt_log, stepOps, metrics, lens>>
    /\ UNCHANGED lossVars
    /\ UNCHANGED <<lensVars, distVars>>

NextLoss ==
    \/ ComputeLoss
    \/ DetachAndRecord
    \/ AddLasso
    \/ ScaledBackward

SpecLoss == InitLoss /\ [][NextLoss]_vars

\* C19: with a nonzero sparsity coefficient, every entry of the per-layer loss
\* lists holds the value the loss function returned for its micro-batch and
\* layer, in every state: the later addition of the regularizer to the
\* training loss does not change it.
C19_RecordedLossIsBeforeLasso ==
    self.lasso # 0 =>
        \A i \in DOMAIN loss_metrics :
            \A j \in 1..Len(loss_metrics[i]) :
                tensors[loss_metrics[i][j]] = objective[i][j]

\* ================================== several workers, lines 113-118, 218-332
\* Every worker runs execute() on its own shard.  The collective calls of a
\* process group are matched in the order each worker issues them: a worker
\* leaves its n-th call when every worker has entered its own n-th call, of
\* the same kind.  A worker is inside maybe_all_reduce at "log_reduce" and
\* inside the gradient all-reduce of backward() at "grad_reduce".
Ranks == 0..(world_size - 1)

\* the batches islice(dl, total_batches) gives the worker w
BatchesOf(w) == Min(total_batches, nbatches[w])

\* a collective that lets its caller go without waiting for the others
AllEnteredBestEffort(w) == TRUE

\* every worker has entered the collective call the worker w is in: it has
\* made as many calls as w and is in that call, of the same kind, or past it
AllEntered(w) ==
    \A v \in Ranks :
        \/ workers[v].ncoll > workers[w].ncoll
        \/ /\ workers[v].ncoll = workers[w].ncoll
           /\ workers[v].pc \in {"log_reduce", "grad_reduce"} =>
                  workers[v].pc = workers[w].pc

\* the workers are about to enter their batch loops; each shard holds enough
\* batches for the run or one batch less
InitDist ==
    /\ self \in [num_steps : 1..MaxSteps]
    /\ data = <<>>
    /\ world_size \in 1..MaxWorld
    /\ local_rank = 0
    /\ pc = "workers"
    /\ err = "none"
    /\ dl = <<>>
    /\ opt_class = "SGD"
    /\ sched = None
    /\ tokens_per_sample = 0
    /\ grad_acc_steps \in 1..MaxBatch
    /\ adjusted_count = None
    /\ total_batches = self.num_steps * grad_acc_steps
    /\ batch_idx = 0
    /\ layer = 0
    /\ grads = [acc |-> 0, clipped |-> None]
    /\ opt_log = <<>>
    /\ stepOps = <<>>
    /\ metrics = <<>>
    /\ lens = [weights |-> "initial", updates |-> 0]
    /\ counts = [model_fwd |-> 0, lens_fwd |-> 0, backward |-> 0,
                 normalize |-> 0, logs |-> 0, saves |-> 0]
    /\ NoLensObjects
    /\ NoTensors
    /\ nbatches \in [Ranks -> {total_batches - 1, total_batches}]
    /\ workers = [w \in Ranks |->
                     [pc |-> "next_batch", batch_idx |-> 0, layer |-> 0,
                      steps |-> 0, ncoll |-> 0, grad_calls |-> 0]]

\* lines 219-247: the next batch of the worker's loop and the model's forward
\* pass, or the end of the loop (lines 330-332)
WorkerNextBatch ==
    /\ \E w \in Ranks :
           /\ workers[w].pc = "next_batch"
           /\ workers' = IF workers[w].batch_idx < BatchesOf(w)
                         THEN [workers EXCEPT ![w].batch_idx = @ + 1,
                                              ![w].layer = 0,
                                              ![w].pc = "layer"]
                         ELSE [workers EXCEPT ![w].pc = "done"]
    /\ UNCHANGED nbatches
    /\ UNCHANGED <<loopVars, lensVars, lossVars>>

\* lines 253-268: the lens's forward pass and loss for the layer, then the
\* call of maybe_all_reduce(logging_loss)
WorkerLensLoss ==
    /\ \E w \in Ranks :
           /\ workers[w].pc = "layer"
           /\ workers' = [workers EXCEPT ![w].pc = "log_reduce",
                                         ![w].ncoll = @ + 1]
    /\ UNCHANGED nbatches
    /\ UNCHANGED <<loopVars, lensVars, lossVars>>

\* lines 268-281: maybe_all_reduce returns; the regularizer is added and
\* scaled_loss.backward() is called, whose gradients DDP all-reduces
WorkerBackward ==
    /\ \E w \in Ranks :
           /\ workers[w].pc = "log_reduce"
           /\ AllEntered(w)
           /\ workers' = [workers EXCEPT ![w].pc = "grad_reduce",
                                         ![w].ncoll = @ + 1,
                                         ![w].grad_calls = @ + 1]
    /\ UNCHANGED nbatches
    /\ UNCHANGED <<loopVars, lensVars, lossVars>>

\* line 281: backward() returns with the averaged gradients added to .grad;
\* then the next layer or the end of the micro-batch
WorkerGradReduced ==
    /\ \E w \in Ranks :
           /\ workers[w].pc = "grad_reduce"
           /\ AllEntered(w)
           /\ workers' = IF workers[w].layer + 1 < NumLayers
                         THEN [workers EXCEPT ![w].layer = @ + 1,
                                              ![w].pc = "layer"]
                         ELSE [workers EXCEPT ![w].pc = "step_check"]
    /\ UNCHANGED nbatches
    /\ UNCHANGED <<loopVars, lensVars, lossVars>>

\* lines 283-328: on the last micro-batch of a step clip, opt.step(),
\* zero_grad, scheduler.step() and logging; then normalize_
WorkerStep ==
    /\ \E w \in Ranks :
           /\ workers[w].pc = "step_check"
           /\ workers' = IF DivMod(workers[w].batch_idx, grad_acc_steps)[2] = 0
                         THEN [workers EXCEPT ![w].steps = @ + 1,
                                              ![w].pc = "next_batch"]
                         ELSE [workers EXCEPT ![w].pc = "next_batch"]
    /\ UNCHANGED nbatches
    /\ UNCHANGED <<loopVars, lensVars, lossVars>>

NextDist ==
    \/ WorkerNextBatch
    \/ WorkerLensLoss
    \/ WorkerBackward
    \/ WorkerGradReduced
    \/ WorkerStep

SpecDist == InitDist /\ [][NextDist]_vars

\* every worker's loop gets the same number of batches
EqualBatches == \A v, w \in Ranks : BatchesOf(v) = BatchesOf(w)

\* C12: a worker that has applied k optimizer steps has left the gradient
\* all-reduce of every backward pass of those steps, which every worker has
\* entered; at the end of each micro-batch every worker, whatever its rank, has
\* made two collective calls per layer; and when the workers' loops get equally
\* many batches, the run has ended or some worker can move.
C12_StepsBehindAllReduceNoDeadlock ==
    /\ \A w, v \in Ranks :
           workers[v].grad_calls >= workers[w].steps * grad_acc_steps * NumLayers
    /\ \A w \in Ranks :
           workers[w].pc \in {"step_check", "next_batch", "done"} =>
               /\ workers[w].ncoll = 2 * NumLayers * workers[w].batch_idx
               /\ workers[w].grad_calls = NumLayers * workers[w].batch_idx
    /\ EqualBatches =>
           \/ \A w \in Ranks : workers[w].pc = "done"
           \/ ENABLED NextDist

\* a run of two workers with two micro-batches per step has ended with every
\* worker having applied all its optimizer steps
C12_Witness ==
    /\ world_size = 2
    /\ grad_acc_steps = 2
    /\ \A w \in Ranks :
           workers[w].pc = "done" /\ workers[w].steps = self.num_steps

\* ------------------------------------- execute() with the constant flag
\* One run of execute() on the translators of the lens it is given: lenses[1]
\* is that lens, and lenses[2] is a deep copy of it taken when the run starts.
\* self.resume is None in these runs.

\* the parameters an optimizer built from params (line 138) moves in one step:
\* those of the translators whose requires_grad flag is set; requires[i] is the
\* flag of translator i's weight, a bias always has it set
OptimizerStep(translators, requires, seed) ==
    [i \in 1..Len(translators) |->
        [weight |-> IF requires[i]
                    THEN [r \in 1..Len(translators[i].weight) |->
                             [c \in 1..Len(translators[i].weight) |->
                                 RAdd(translators[i].weight[r][c],
                                      ParamStep(seed, i, r, c))]]
                    ELSE translators[i].weight,
         bias |-> [r \in 1..Len(translators[i].bias) |->
                      RAdd(translators[i].bias[r], ParamStep(seed, i, r, 0))]]]

\* lens.normalize_() on a list of translators, lines 299-306
NormalizeAll(translators) ==
    [i \in 1..Len(translators) |-> NormalizeTranslator(translators[i])]

\* the translators of the lenses a run is given, for a config: those of a new
\* lens, those of a lens that earlier training moved without normalizing it
\* (a warm start), and those of a lens that was normalized after such training
StartTranslators(config) ==
    LET new == [i \in 1..config["num_hidden_layers"] |->
                   [weight |-> ZeroMatrix(config["d_model"]),
                    bias |-> Zeros(config["d_model"])]]
        all == [i \in 1..Len(new) |-> TRUE]
        moved == {OptimizerStep(new, all, seed) : seed \in BatchSeeds}
    IN  {new} \cup moved \cup {NormalizeAll(t) : t \in moved}

\* execute() is about to be called with a lens; nn.Linear's parameters are
\* made with requires_grad set
InitConstant ==
    /\ self \in [constant : BOOLEAN, num_steps : 1..MaxSteps, seed : BatchSeeds]
    /\ grad_acc_steps \in 1..MaxBatch
    /\ total_batches = 0
    /\ batch_idx = 0
    /\ pc = "idle"
    /\ err = "none"
    /\ data = <<>>
    /\ world_size = 1
    /\ local_rank = 0
    /\ dl = <<>>
    /\ opt_class = "none"
    /\ sched = None
    /\ tokens_per_sample = 0
    /\ adjusted_count = None
    /\ layer = 0
    /\ grads = [acc |-> 0, clipped |-> None]
    /\ opt_log = <<>>
    /\ stepOps = <<>>
    /\ metrics = <<>>
    /\ lens = [weights |-> "initial", updates |-> 0]
    /\ counts = [model_fwd |-> 0, lens_fwd |-> 0, backward |-> 0,
                 normalize |-> 0, logs |-> 0, saves |-> 0]
    /\ NoTensorsNoWorkers
    /\ \E c \in {k \in NewConfigs : k["bias"]} :
           LET made == NewTunedLens(<<c>>, "u1", 1)
           IN  /\ configs = made.configs
               /\ \E t \in StartTranslators(c) :
                      lenses = <<[kind |-> "tuned", unembed |-> "u1", config |-> 1,
                                  layer_translators |-> t,
                                  weight_requires_grad |->
                                      [i \in 1..Len(t) |-> TRUE]]>>
    /\ files = None
    /\ warnings = <<>>
    /\ ret = None
    /\ config_dict = None
    /\ num_updates = 0

\* lines 109-111 and 215: with the constant flag every probe's weight gets
\* requires_grad_(False); the batches to train on are counted
ConstantSetup ==
    /\ pc = "idle"
    /\ Len(lenses) = 1
    /\ lenses' = <<[lenses[1] EXCEPT !.weight_requires_grad =
                       [i \in 1..Len(@) |-> IF self.constant THEN FALSE ELSE @[i]]],
                   lenses[1]>>
    /\ total_batches' = self.num_steps * grad_acc_steps
    /\ pc' = "training"
    /\ UNCHANGED <<self, data, world_size, local_rank, err, dl, opt_class, sched,
                   tokens_per_sample, grad_acc_steps, adjusted_count, batch_idx,
                   layer, grads, opt_log, stepOps, metrics, lens, counts>>
    /\ UNCHANGED <<configs, files, warnings, ret, config_dict, num_updates>>
    /\ UNCHANGED <<lossVars, distVars>>

\* lines 219-328, the loop's body for one batch: the optimizer steps when the
\* batch completes grad_acc_steps of them (lines 283-286), and normalize_ runs
\* after every batch (line 328)
ConstantBatch ==
    /\ pc = "training"
    /\ batch_idx < total_batches
    /\ batch_idx' = batch_idx + 1
    /\ LET rem == batch_idx' % grad_acc_steps
           before == lenses[1].layer_translators
           stepped == IF rem = 0
                      THEN OptimizerStep(before, lenses[1].weight_requires_grad,
                                         self.seed)
                      ELSE before
       IN  /\ lenses' = [lenses EXCEPT ![1].layer_translators =
                                           NormalizeAll(stepped)]
           /\ num_updates' = IF rem = 0 THEN num_updates + 1 ELSE num_updates
    /\ UNCHANGED <<self, data, world_size, local_rank, pc, err, dl, opt_class,
                   sched, tokens_per_sample, grad_acc_steps, adjusted_count,
                   total_batches, layer, grads, opt_log, stepOps, metrics, lens,
                   counts>>
    /\ UNCHANGED <<configs, files, warnings, ret, config_dict>>
    /\ UNCHANGED <<lossVars, distVars>>

\* lines 330-332: the loop is over and the lens is saved
ConstantFinish ==
    /\ pc = "training"
    /\ batch_idx = total_batches
    /\ pc' = "done"
    /\ files' = Some(SavedDirectory(lenses[1], configs))
    /\ UNCHANGED <<self, data, world_size, local_rank, err, dl, opt_class, sched,
                   tokens_per_sample, grad_acc_steps, adjusted_count,
                   total_batches, batch_idx, layer, grads, opt_log, stepOps,
                   metrics, lens, counts>>
    /\ UNCHANGED <<configs, lenses, warnings, ret, config_dict, num_updates>>
    /\ UNCHANGED <<lossVars, distVars>>

NextConstant ==
    \/ ConstantSetup
    \/ ConstantBatch
    \/ ConstantFinish

SpecConstant == InitConstant /\ [][NextConstant]_vars

\* the weights of the lens's translators, in order
WeightsOf(l) ==
    [i \in 1..Len(lenses[l].layer_translators) |->
        lenses[l].layer_translators[i].weight]

\* C21: when a run with the constant flag is over, every translator's weight
\* matrix equals the one the lens had when the run started.
C21_ConstantLeavesWeights ==
    (pc = "done" /\ self.constant) => WeightsOf(1) = WeightsOf(2)

\* C22: on the coordinating worker every layer's list in metrics holds at most
\* grad_acc_steps entries in every state of a run, and when an optimizer step
\* reaches the logging code each list holds exactly the entries of that step's
\* grad_acc_steps micro-batches, with or without self.wandb.
C22_MetricBufferEmptiedEveryStep ==
    local_rank = 0 =>
        /\ \A i \in DOMAIN metrics : metrics[i] <= grad_acc_steps
        /\ pc = "log" => \A i \in DOMAIN metrics : metrics[i] = grad_acc_steps

\* C23: after any sequence of constructions and loads, the hash in the config
\* of every TunedLens that exists equals the hash of the unembed that lens
\* holds.
C23_ConfigHashIsOwnUnembedHash ==
    \A l \in TunedIds :
        configs[lenses[l].config]["unemebd_hash"] =
            Some(UnembeddingHash(lenses[l].unembed))
====
